---------------------------- MODULE Spec2Model ----------------------------
(***************************************************************************)
(* A model of src/Main.py: the Game window (the driver), the State base    *)
(* class and its subclasses MainMenu and Scene.                            *)
(*                                                                         *)
(* The host (arcade / pyglet) calls Game.on_draw, Game.on_key_press,       *)
(* Game.on_key_release and Game.update synchronously, one at a time and in *)
(* any order; each call is one action.  A handler is an operator from the  *)
(* program state g (a record, see G) to the set of program states the call *)
(* can end in: more than one where the code draws a random number or where *)
(* a hook of a user-written State subclass runs.                           *)
(*                                                                         *)
(* An exception that leaves a handler (KeyError, AttributeError) and the   *)
(* SystemExit raised by quit() propagate out of arcade.run(): the run is   *)
(* over, and pc records how it ended.  arcade's render surface is not      *)
(* part of the model.                                                      *)
(***************************************************************************)
EXTENDS Integers, Sequences, FiniteSets, TLC

(***************************************************************************)
(* Bounds of the model.                                                    *)
(***************************************************************************)
\* SPACE key-downs the host delivers in one run
MaxSpace == 2
\* State instances constructed in one run
MaxInst == 3

(***************************************************************************)
(* Values.                                                                 *)
(***************************************************************************)
\* Python's None (State.next_state before a transition is requested)
None == "None"
\* an attribute that has not been assigned (reading it raises AttributeError)
NoAttr == <<>>
\* Game.state when Game.__init__ raised before assigning it
NoState == [inst |-> 0]

\* randint(150, 200) in MainMenu.update and Scene.update
RandLo == 150
RandHi == 200
\* the colour component that is not random
Full == 255
\* self.text_position[0] += 10, self.text_position[1] += 10
Step == 10
\* self.persist.get("text_position", [0, 300])
DefaultPosition == <<0, 300>>

\* the keys the host delivers: arcade.key.ESCAPE, arcade.key.SPACE, any other
KeySyms == {"ESCAPE", "SPACE", "A"}
\* the modifier flags (no hook reads them): none
Mods == {0}
\* delta_time (no hook reads it), in the unit the host uses
Deltas == {16}

\* the classes: the two shipped ones, the base class, a user-written subclass
Classes == {"MainMenu", "Scene", "State", "UserState"}
\* the keys a registry may hold and a state may name as next_state
StateKeys == {"MAIN", "SCENE"}
\* what a user-written state stores under persist["p"]
UserValues == {1, 2}

VARIABLES
    states,   \* Game.states: the registry, key -> class
    state,    \* Game.state: the active state instance (a record)
    pc,       \* "running", "exited" (quit() was called) or "raised"
    insts,    \* how many State instances have been constructed
    exits,    \* how many times quit() has been called
    calls,    \* the hooks the last handler call dispatched, in order
    written,  \* per persist key, the value a hook wrote to it last
    last,     \* the last handler call and the active state it started from
    spaces,   \* how many SPACE key-downs have been delivered
    space_from \* the active instance's text position before the last SPACE
              \* key-down it received (NoAttr: it has received none)

vars == <<states, state, pc, insts, exits, calls, written, last, spaces, space_from>>

(***************************************************************************)
(* The persist dictionary.                                                 *)
(***************************************************************************)
EmptyBag == [k \in {} |-> 0]

\* d[key] = value
DictSet(d, key, value) ==
    [k \in DOMAIN d \cup {key} |-> IF k = key THEN value ELSE d[k]]

\* d.get(key, default)
DictGet(d, key, default) == IF key \in DOMAIN d THEN d[key] ELSE default

\* the entries a hook that was handed the dictionary a and left it as b wrote
Writes(a, b) ==
    LET K == { k \in DOMAIN b : k \notin DOMAIN a \/ a[k] # b[k] }
    IN  [k \in K |-> b[k]]

\* the record of last writes w after the writes u
Overlay(w, u) ==
    [k \in DOMAIN w \cup DOMAIN u |-> IF k \in DOMAIN u THEN u[k] ELSE w[k]]


(***************************************************************************)
(* class State and its subclasses.  A state instance is a record; a hook   *)
(* is an operator from the instance to the set of instances it can leave.  *)
(***************************************************************************)
\* State.__init__ with done initialised to True
State_init_done(cls, id) ==
    [inst |-> id, cls |-> cls,
     persist |-> EmptyBag, next_state |-> None, done |-> TRUE, quit |-> FALSE,
     text |-> NoAttr, text_position |-> NoAttr, col |-> NoAttr]

\* State.__init__ (MainMenu.__init__ and Scene.__init__ only call it);
\* id tells the instances of a run apart
State_init(cls, id) ==
    [inst |-> id, cls |-> cls,
     persist |-> EmptyBag, next_state |-> None, done |-> FALSE, quit |-> FALSE,
     text |-> NoAttr, text_position |-> NoAttr, col |-> NoAttr]

\* What one hook of a user-written subclass of State does to the fields the
\* driver reads: nothing, or it requests a transition (both halves, or one
\* half only), or it requests termination, or it writes into the persist
\* dictionary.
UserEffects(s) ==
    {s}
    \cup { [s EXCEPT !.done = TRUE, !.next_state = n] : n \in StateKeys }
    \cup { [s EXCEPT !.done = TRUE] }
    \cup { [s EXCEPT !.next_state = n] : n \in StateKeys }
    \cup { [s EXCEPT !.quit = TRUE] }
    \cup { [s EXCEPT !.persist = DictSet(s.persist, "p", v)] : v \in UserValues }

\* setup without "self.persist = persist": the instance keeps the empty
\* dictionary of State.__init__
setup_unstored(s, persist) ==
    CASE s.cls = "MainMenu" ->
           { [s EXCEPT !.text = "Scene One.",
                !.text_position = DictGet(persist, "text_position", DefaultPosition)] }
      [] s.cls = "Scene" ->
           { [s EXCEPT !.text = "Scene Two.",
                !.text_position = DictGet(persist, "text_position", DefaultPosition)] }
      [] s.cls = "UserState" -> UserEffects(s)
      [] OTHER -> {s}

\* setup that starts every instance at the default position instead of
\* reading the position from the dictionary
setup_default(s, persist) ==
    LET base == [s EXCEPT !.persist = persist]
    IN  CASE s.cls = "MainMenu" ->
               { [base EXCEPT !.text = "Scene One.", !.text_position = DefaultPosition] }
          [] s.cls = "Scene" ->
               { [base EXCEPT !.text = "Scene Two.", !.text_position = DefaultPosition] }
          [] s.cls = "UserState" -> UserEffects(base)
          [] OTHER -> {base}

\* State.setup, MainMenu.setup, Scene.setup
setup(s, persist) ==
    LET base == [s EXCEPT !.persist = persist]
    IN  CASE s.cls = "MainMenu" ->
               { [base EXCEPT !.text = "Scene One.",
                    !.text_position = DictGet(persist, "text_position", DefaultPosition)] }
          [] s.cls = "Scene" ->
               { [base EXCEPT !.text = "Scene Two.",
                    !.text_position = DictGet(persist, "text_position", DefaultPosition)] }
          [] s.cls = "UserState" -> UserEffects(base)
          [] OTHER -> {base}

\* the SPACE branch without self.persist["text_position"] = self.text_position
Advance_unsaved(s, target) ==
    LET pos == <<s.text_position[1] + Step, s.text_position[2] + Step>>
    IN  [s EXCEPT !.text_position = pos, !.done = TRUE, !.next_state = target]

\* the SPACE branch without self.text_position[1] += 10
Advance_x_only(s, target) ==
    LET pos == <<s.text_position[1] + Step, s.text_position[2]>>
    IN  [s EXCEPT !.text_position = pos,
                  !.persist = DictSet(s.persist, "text_position", pos),
                  !.done = TRUE,
                  !.next_state = target]

\* the body of "if key == ac.key.SPACE:" in MainMenu.key_down and
\* Scene.key_down; the list is changed in place and then stored in the bag
Advance(s, target) ==
    LET pos == <<s.text_position[1] + Step, s.text_position[2] + Step>>
    IN  [s EXCEPT !.text_position = pos,
                  !.persist = DictSet(s.persist, "text_position", pos),
                  !.done = TRUE,
                  !.next_state = target]

\* MainMenu.key_down naming its own key as the next state
MainMenu_key_down_self(s, key, mod) ==
    LET s1 == IF key = "ESCAPE" THEN [s EXCEPT !.quit = TRUE] ELSE s
    IN  IF key = "SPACE" THEN Advance(s1, "MAIN") ELSE s1

\* MainMenu.key_down
MainMenu_key_down(s, key, mod) ==
    LET s1 == IF key = "ESCAPE" THEN [s EXCEPT !.quit = TRUE] ELSE s
    IN  IF key = "SPACE" THEN Advance(s1, "SCENE") ELSE s1

\* Scene.key_down naming a key that main() does not register
Scene_key_down_typo(s, key, mod) ==
    LET s1 == IF key = "ESCAPE" THEN [s EXCEPT !.quit = TRUE] ELSE s
    IN  IF key = "SPACE" THEN Advance(s1, "MENU") ELSE s1

\* Scene.key_down
Scene_key_down(s, key, mod) ==
    LET s1 == IF key = "ESCAPE" THEN [s EXCEPT !.quit = TRUE] ELSE s
    IN  IF key = "SPACE" THEN Advance(s1, "MAIN") ELSE s1

\* State.key_down and its overrides
key_down(s, key, mod) ==
    CASE s.cls = "MainMenu" -> { MainMenu_key_down(s, key, mod) }
      [] s.cls = "Scene" -> { Scene_key_down(s, key, mod) }
      [] s.cls = "UserState" -> UserEffects(s)
      [] OTHER -> {s}

\* State.key_release: no class overrides it
key_release(s, key, mod) == {s}

\* State.update, MainMenu.update, Scene.update
state_update(s, dt) ==
    CASE s.cls = "MainMenu" ->
           { [s EXCEPT !.col = <<Full, x, x>>] : x \in RandLo..RandHi }
      [] s.cls = "Scene" ->
           { [s EXCEPT !.col = <<x, Full, x>>] : x \in RandLo..RandHi }
      [] s.cls = "UserState" -> UserEffects(s)
      [] OTHER -> {s}

\* State.draw, MainMenu.draw, Scene.draw: whether the call returns; the two
\* shipped classes read self.col, which only their update hook assigns
draw_returns(s) ==
    IF s.cls \in {"MainMenu", "Scene"} THEN s.col # NoAttr ELSE TRUE

(***************************************************************************)
(* class Game.  g is the program state: the Game object's fields and how   *)
(* the run stands.                                                         *)
(***************************************************************************)
\* one more hook dispatched to instance s
Called(g, hook, s) == Append(g.calls, <<hook, s.inst>>)

\* setup dispatched with the dictionary persist, returning the instance s
CalledSetup(g, persist, s) == Append(g.calls, <<"setup", s.inst, persist, s.done>>)

\* g after a hook that was handed the dictionary persist left the instance s
Wrote(g, persist, s) == Overlay(g.written, Writes(persist, s.persist))

\* Game.__init__ building the state registered as "MAIN" whatever
\* initial_state is
Game_init_main(sts, initial_state) ==
    LET g0 == [states |-> sts, state |-> NoState, pc |-> "running",
               insts |-> 0, exits |-> 0, calls |-> <<>>, written |-> EmptyBag]
    IN  IF initial_state \notin DOMAIN sts \/ "MAIN" \notin DOMAIN sts
        THEN { [g0 EXCEPT !.pc = "raised"] }
        ELSE { [g0 EXCEPT !.state = s, !.insts = 1,
                          !.calls = CalledSetup(g0, EmptyBag, s),
                          !.written = Wrote(g0, EmptyBag, s)] :
                 s \in setup(State_init(sts["MAIN"], 1), EmptyBag) }

\* Game.__init__
Game_init(sts, initial_state) ==
    LET g0 == [states |-> sts, state |-> NoState, pc |-> "running",
               insts |-> 0, exits |-> 0, calls |-> <<>>, written |-> EmptyBag]
    IN  IF initial_state \notin DOMAIN sts
        THEN { [g0 EXCEPT !.pc = "raised"] }
        ELSE { [g0 EXCEPT !.state = s, !.insts = 1,
                          !.calls = CalledSetup(g0, EmptyBag, s),
                          !.written = Wrote(g0, EmptyBag, s)] :
                 s \in setup(State_init(sts[initial_state], 1), EmptyBag) }

\* on_draw clearing the done flag of the state it draws
on_draw_resets(g) ==
    IF draw_returns(g.state)
    THEN { [g EXCEPT !.state.done = FALSE, !.calls = Called(g, "draw", g.state)] }
    ELSE { [g EXCEPT !.calls = Called(g, "draw", g.state), !.pc = "raised"] }

\* Game.on_draw
on_draw(g) ==
    IF draw_returns(g.state)
    THEN { [g EXCEPT !.calls = Called(g, "draw", g.state)] }
    ELSE { [g EXCEPT !.calls = Called(g, "draw", g.state), !.pc = "raised"] }

\* on_key_press that goes on to flip the state when the hook asked for it
on_key_press_flips(g, key, mod) ==
    UNION { IF s.done /\ s.next_state \in DOMAIN g.states
            THEN { [g EXCEPT !.state = n, !.insts = g.insts + 1,
                             !.calls = Called(g, "key_down", g.state),
                             !.written = Wrote(g, g.state.persist, s)] :
                     n \in setup(State_init(g.states[s.next_state], g.insts + 1), s.persist) }
            ELSE { [g EXCEPT !.state = s, !.calls = Called(g, "key_down", g.state),
                             !.written = Wrote(g, g.state.persist, s)] } :
            s \in key_down(g.state, key, mod) }

\* Game.on_key_press
on_key_press(g, key, mod) ==
    { [g EXCEPT !.state = s, !.calls = Called(g, "key_down", g.state),
                !.written = Wrote(g, g.state.persist, s)] :
        s \in key_down(g.state, key, mod) }

\* Game.on_key_release
on_key_release(g, key, mod) ==
    { [g EXCEPT !.state = s, !.calls = Called(g, "key_release", g.state)] :
        s \in key_release(g.state, key, mod) }

\* flip_state handing a new dictionary to the successor's setup
flip_state_fresh_bag(g) ==
    LET old == [g.state EXCEPT !.done = FALSE]
        id == g.insts + 1
    IN  IF old.next_state \notin DOMAIN g.states
        THEN { [g EXCEPT !.state = old, !.pc = "raised"] }
        ELSE { [g EXCEPT !.state = s, !.insts = id,
                         !.calls = CalledSetup(g, EmptyBag, s),
                         !.written = Wrote(g, EmptyBag, s)] :
                 s \in setup(State_init(g.states[old.next_state], id), EmptyBag) }

\* flip_state looking the key up with self.states.get and keeping the
\* active state when there is no such key
flip_state_get(g) ==
    LET persist == g.state.persist
        old == [g.state EXCEPT !.done = FALSE]
        id == g.insts + 1
    IN  IF old.next_state \notin DOMAIN g.states
        THEN { [g EXCEPT !.state = old] }
        ELSE { [g EXCEPT !.state = s, !.insts = id,
                         !.calls = CalledSetup(g, persist, s),
                         !.written = Wrote(g, persist, s)] :
                 s \in setup(State_init(g.states[old.next_state], id), persist) }

\* Game.flip_state
flip_state(g) ==
    LET persist == g.state.persist
        old == [g.state EXCEPT !.done = FALSE]
        id == g.insts + 1
    IN  IF old.next_state \notin DOMAIN g.states
        THEN { [g EXCEPT !.state = old, !.pc = "raised"] }
        ELSE { [g EXCEPT !.state = s, !.insts = id,
                         !.calls = CalledSetup(g, persist, s),
                         !.written = Wrote(g, persist, s)] :
                 s \in setup(State_init(g.states[old.next_state], id), persist) }

\* the second "if" with a call that returns (such as self.close()) where
\* quit() is
check_quit_returns(g) ==
    IF g.pc = "running" /\ g.state.quit
    THEN [g EXCEPT !.exits = @ + 1]
    ELSE g

\* the second "if" of Game.check_state
check_quit(g) ==
    IF g.pc = "running" /\ g.state.quit
    THEN [g EXCEPT !.pc = "exited", !.exits = @ + 1]
    ELSE g

\* check_state with "while self.state.done:" where "if self.state.done:" is
\* (two rounds of the loop suffice to tell them apart)
check_state_while(g) ==
    LET once == IF g.state.done THEN flip_state(g) ELSE {g}
        twice == UNION { IF h.pc = "running" /\ h.state.done THEN flip_state(h) ELSE {h} :
                           h \in once }
    IN  { check_quit(h) : h \in twice }

\* check_state flipping whenever next_state is set, whatever done is
check_state_on_next(g) ==
    LET flipped == IF g.state.next_state # None THEN flip_state(g) ELSE {g}
    IN  { check_quit(h) : h \in flipped }

\* Game.check_state
check_state(g) ==
    LET flipped == IF g.state.done THEN flip_state(g) ELSE {g}
    IN  { check_quit(h) : h \in flipped }

\* the last line of Game.update
dispatch_update(g, delta_time) ==
    { [g EXCEPT !.state = s, !.calls = Called(g, "update", g.state),
                !.written = Wrote(g, g.state.persist, s)] :
        s \in state_update(g.state, delta_time) }

\* update calling the hook first and check_state after it
update_hook_first(g, delta_time) ==
    UNION { check_state(h) : h \in dispatch_update(g, delta_time) }

\* Game.update
update(g, delta_time) ==
    UNION { IF h.pc = "running" THEN dispatch_update(h, delta_time) ELSE {h} :
              h \in check_state(g) }

(***************************************************************************)
(* The state machine.                                                      *)
(***************************************************************************)
\* the program state held in the variables
G == [states |-> states, state |-> state, pc |-> pc,
      insts |-> insts, exits |-> exits, calls |-> calls, written |-> written]

\* the active state as a handler call finds it (the colour left out)
Snapshot(s) == IF s = NoState THEN s ELSE [s EXCEPT !.col = NoAttr]

\* the variables take the program state g
Becomes(g) ==
    /\ states' = g.states
    /\ state' = g.state
    /\ pc' = g.pc
    /\ insts' = g.insts
    /\ exits' = g.exits
    /\ calls' = g.calls
    /\ written' = g.written

\* a handler call starts with no hook dispatched yet
Fresh == [G EXCEPT !.calls = <<>>]

\* the registry of main()
game_states == [k \in {"MAIN", "SCENE"} |-> IF k = "MAIN" THEN "MainMenu" ELSE "Scene"]

\* every registry over StateKeys
Registries ==
    UNION { [D -> Classes] : D \in SUBSET StateKeys }

\* Game(width, height, sts, initial_state) has returned or raised
Constructed(sts, initial_state) ==
    \E g \in Game_init(sts, initial_state) :
        /\ states = g.states
        /\ state = g.state
        /\ pc = g.pc
        /\ insts = g.insts
        /\ exits = g.exits
        /\ calls = g.calls
        /\ written = g.written
        /\ last = [op |-> "init", key |-> initial_state, pre |-> NoState]
        /\ spaces = 0
        /\ space_from = NoAttr

\* main(): Game(WIDTH, HEIGHT, game_states, "MAIN")
Init == Constructed(game_states, "MAIN")

\* Game constructed with any registry and any initial key
InitAny == \E sts \in Registries, k \in StateKeys : Constructed(sts, k)

\* the host draws a frame
OnDraw ==
    /\ pc = "running"
    /\ \E g \in on_draw(Fresh) : Becomes(g)
    /\ last' = [op |-> "on_draw", key |-> None, pre |-> Snapshot(state)]
    /\ UNCHANGED <<spaces, space_from>>

\* the host delivers a key-down
OnKeyPress ==
    /\ pc = "running"
    /\ \E key \in KeySyms, mod \in Mods :
        /\ key = "SPACE" => spaces < MaxSpace
        /\ \E g \in on_key_press(Fresh, key, mod) : Becomes(g)
        /\ last' = [op |-> "on_key_press", key |-> key, pre |-> Snapshot(state)]
        /\ spaces' = IF key = "SPACE" THEN spaces + 1 ELSE spaces
        /\ space_from' = IF key = "SPACE" THEN state.text_position ELSE space_from

\* the host delivers a key-up
OnKeyRelease ==
    /\ pc = "running"
    /\ \E key \in KeySyms, mod \in Mods :
        /\ \E g \in on_key_release(Fresh, key, mod) : Becomes(g)
        /\ last' = [op |-> "on_key_release", key |-> key, pre |-> Snapshot(state)]
    /\ UNCHANGED <<spaces, space_from>>

\* the host's update tick
Update ==
    /\ pc = "running"
    /\ state.done => insts < MaxInst
    /\ \E delta_time \in Deltas :
        \E g \in update(Fresh, delta_time) : Becomes(g)
    /\ last' = [op |-> "update", key |-> None, pre |-> Snapshot(state)]
    /\ space_from' = IF state'.inst = state.inst THEN space_from ELSE NoAttr
    /\ UNCHANGED spaces

Next == OnDraw \/ OnKeyPress \/ OnKeyRelease \/ Update

\* the shipped program
Spec == Init /\ [][Next]_vars

\* the driver with any registry, any initial key and any State subclass
SpecAny == InitAny /\ [][Next]_vars


(***************************************************************************)
(* What the last handler call did.                                         *)
(***************************************************************************)
\* how many times the last handler call dispatched the hook h
Dispatched(h) == Cardinality({ i \in 1..Len(calls) : calls[i][1] = h })

\* the position pos moved by one SPACE key-down
Moved(pos) == <<pos[1] + Step, pos[2] + Step>>

\* the last call was an update that found the active state with done set and
\* next_state a registered key
FlipDue ==
    /\ last.op = "update"
    /\ last.pre.done
    /\ last.pre.next_state \in DOMAIN states

\* the classes whose setup and update hooks leave the persist dictionary alone
Quiet == {"MainMenu", "Scene", "State"}

(***************************************************************************)
(* Properties.                                                             *)
(***************************************************************************)
\* C1: an update that finds the active state's quit flag set signals
\* termination, performs no transition and dispatches the update hook to no
\* state, whatever the done flag is.
C1_QuitBeforeDone ==
    (last.op = "update" /\ last.pre.quit) =>
        /\ pc = "exited"
        /\ state.inst = last.pre.inst
        /\ Dispatched("setup") = 0
        /\ Dispatched("update") = 0

\* C2: an update that finds done set and next_state = X registered leaves a
\* new instance of registry[X] active; its setup was handed the
\* predecessor's dictionary, so every entry p -> v of it is in the
\* successor's dictionary (a successor whose own hooks write "p" may have
\* overwritten that one entry).
C2_BagHandedOver ==
    FlipDue =>
        /\ state.inst = last.pre.inst + 1
        /\ state.inst = insts
        /\ state.cls = states[last.pre.next_state]
        /\ calls[1][1] = "setup" /\ calls[1][2] = state.inst
        /\ calls[1][3] = last.pre.persist
        /\ DOMAIN last.pre.persist \subseteq DOMAIN state.persist
        /\ \A p \in DOMAIN last.pre.persist :
              (state.cls \in Quiet \/ p # "p") => state.persist[p] = last.pre.persist[p]

\* C2's case: a user-written state that stored p -> v was replaced by a
\* state that holds p -> v
C2_Witness ==
    /\ FlipDue
    /\ last.pre.cls = "UserState"
    /\ "p" \in DOMAIN last.pre.persist
    /\ state.inst = last.pre.inst + 1
    /\ state.cls \in Quiet
    /\ state.persist["p"] = last.pre.persist["p"]

\* C3: one update call replaces the active state at most once, also when
\* the successor comes back from setup with done set.
C3_OneFlipPerUpdate ==
    last.op = "update" =>
        /\ Dispatched("setup") <= 1
        /\ state.inst <= last.pre.inst + 1
        /\ insts <= last.pre.inst + 1
        /\ Dispatched("setup") = 1 => calls[1][2] = state.inst

\* C3's case: the update flipped to a successor whose setup returned with
\* done set and a registered next_state, and that successor is still active
C3_Witness ==
    /\ last.op = "update"
    /\ pc = "running"
    /\ Dispatched("setup") = 1
    /\ calls[1][4]
    /\ state.inst = last.pre.inst + 1
    /\ state.done
    /\ state.next_state \in DOMAIN states

\* C4: on_draw, on_key_press and on_key_release leave the active instance
\* in place; it changes only inside update.
C4_OnlyUpdateFlips ==
    last.op \in {"on_draw", "on_key_press", "on_key_release"} =>
        /\ state.inst = last.pre.inst
        /\ state.cls = last.pre.cls
        /\ insts = last.pre.inst
        /\ Dispatched("setup") = 0

\* C4's case: a key-down left a transition pending and the instance active
C4_Witness ==
    /\ last.op = "on_key_press"
    /\ state.done
    /\ state.next_state \in DOMAIN states
    /\ state.inst = last.pre.inst

\* C5: in the shipped program, once SPACE went to the active MainMenu that
\* MainMenu stays active until the next update, and that update leaves a
\* Scene active whose persist["text_position"] is the MainMenu's position
\* before the key-down plus (10, 10).
C5_SpaceThenUpdate ==
    [][ (state.cls = "MainMenu" /\ space_from # NoAttr) =>
          IF last'.op = "update"
          THEN /\ state'.cls = "Scene"
               /\ state'.inst = state.inst + 1
               /\ "text_position" \in DOMAIN state'.persist
               /\ state'.persist["text_position"] = Moved(space_from)
          ELSE /\ state'.inst = state.inst
               /\ state'.cls = "MainMenu" ]_vars

\* C5's case: the update after a SPACE key-down to the first MainMenu
C5_Witness ==
    /\ last.op = "update"
    /\ last.pre.cls = "MainMenu"
    /\ last.pre.text_position = Moved(DefaultPosition)
    /\ state.cls = "Scene"
    /\ state.persist["text_position"] = Moved(DefaultPosition)

\* C6: quit() is called only by an update that finds a state's quit flag
\* set, at most once in a run, and no handler runs after it.
C6_QuitOnce ==
    /\ [](/\ exits <= 1
          /\ (pc = "exited") <=> (exits = 1)
          /\ pc = "exited" =>
               /\ last.op = "update"
               /\ state.quit
               /\ Dispatched("update") = 0)
    /\ [][pc # "exited"]_vars

\* C6's case: the run has exited
C6_Witness == pc = "exited" /\ exits = 1

\* C7: the shipped program always holds one active state, and whenever done
\* is set (also when update consults next_state) next_state is a registered
\* key, MAIN or SCENE.
C7_NextStateRegistered ==
    /\ state # NoState
    /\ state.inst = insts
    /\ insts >= 1
    /\ state.done =>
         /\ state.next_state \in DOMAIN states
         /\ state.next_state \in {"MAIN", "SCENE"}
    /\ (last.op = "update" /\ last.pre.done) =>
         last.pre.next_state \in DOMAIN states

\* C7's case: a Scene asked for the transition back
C7_Witness ==
    /\ state.cls = "Scene"
    /\ state.done
    /\ state.next_state = "MAIN"

\* C8: the active state's dictionary holds every key ever written, each
\* with the value written last, however many transitions came between.
C8_EntriesSurvive ==
    state # NoState => state.persist = written

\* C8's case: two transitions after construction, both keys written
C8_Witness ==
    /\ insts = 3
    /\ pc = "running"
    /\ DOMAIN state.persist = {"p", "text_position"}
    /\ DOMAIN written = {"p", "text_position"}

\* C9: an unregistered key fails at once: the constructor leaves no active
\* state, and an update that finds done set and next_state unregistered
\* raises without replacing the active state or dispatching the update hook.
C9_UnregisteredFails ==
    /\ (last.op = "init" /\ last.key \notin DOMAIN states) =>
         /\ pc = "raised"
         /\ state = NoState
         /\ insts = 0
         /\ calls = <<>>
    /\ (last.op = "update" /\ last.pre.done /\ last.pre.next_state \notin DOMAIN states) =>
         /\ pc = "raised"
         /\ state.inst = last.pre.inst
         /\ state.cls = last.pre.cls
         /\ insts = last.pre.inst
         /\ calls = <<>>

\* C9's case: a MainMenu whose "SCENE" is not registered was asked to advance
C9_Witness ==
    /\ last.op = "update"
    /\ last.pre.cls = "MainMenu"
    /\ last.pre.done
    /\ last.pre.next_state \notin DOMAIN states
    /\ pc = "raised"

\* C10 as stated: the next update fails when done is set and next_state is
\* not a registered key, and also when next_state is a key and done is not
\* set.
C10_HalfPairFails ==
    (/\ last.op = "update"
     /\ \/ last.pre.done /\ last.pre.next_state \notin DOMAIN states
        \/ ~last.pre.done /\ last.pre.next_state # None) =>
        pc = "raised"

\* C10 as the code has it: done with an unregistered next_state makes the
\* update raise; next_state without done is not looked at: no transition,
\* and the update goes on as it would with next_state unset.
C10_OnlyDoneConsulted ==
    last.op = "update" =>
        /\ (last.pre.done /\ last.pre.next_state \notin DOMAIN states) =>
             (pc = "raised" /\ Dispatched("update") = 0)
        /\ (~last.pre.done /\ last.pre.next_state # None) =>
             /\ state.inst = last.pre.inst
             /\ Dispatched("setup") = 0
             /\ IF last.pre.quit
                THEN pc = "exited" /\ calls = <<>>
                ELSE pc = "running" /\ calls = << <<"update", last.pre.inst>> >>

\* C10's case: an update went through with next_state set and done not set
C10_Witness ==
    /\ last.op = "update"
    /\ ~last.pre.done
    /\ last.pre.next_state \in StateKeys
    /\ pc = "running"
    /\ state.inst = last.pre.inst


\* the last call was an update that replaced the active state
Flipped == last.op = "update" /\ state.inst = last.pre.inst + 1

\* C11: constructing Game with a registered key k leaves a first instance of
\* registry[k] active, set up with the driver's empty dictionary.
C11_InitialState ==
    (last.op = "init" /\ last.key \in DOMAIN states) =>
        /\ pc = "running"
        /\ state.cls = states[last.key]
        /\ state.inst = 1
        /\ insts = 1
        /\ Len(calls) = 1
        /\ calls[1][1] = "setup" /\ calls[1][2] = 1
        /\ calls[1][3] = EmptyBag
        /\ state.col = NoAttr
        /\ state.cls \in Quiet =>
             /\ state.persist = EmptyBag
             /\ state.next_state = None
             /\ ~state.done
             /\ ~state.quit

\* C11's case: the key SCENE is registered with another class than the key
\* MAIN, and the game starts from SCENE
C11_Witness ==
    /\ last.op = "init"
    /\ last.key = "SCENE"
    /\ DOMAIN states = {"MAIN", "SCENE"}
    /\ states["MAIN"] # states["SCENE"]
    /\ state.cls = states["SCENE"]

\* C12: an on_draw call changes nothing: not the active instance, not its
\* flags, text position or colour, not the persist dictionary.
C12_DrawChangesNothing ==
    [][ last'.op = "on_draw" =>
          /\ state' = state
          /\ states' = states
          /\ written' = written
          /\ insts' = insts
          /\ exits' = exits ]_vars

\* C12's case: a frame was drawn while a transition was pending
C12_Witness ==
    /\ last.op = "on_draw"
    /\ pc = "running"
    /\ state.done
    /\ Snapshot(state) = last.pre

\* C13 as stated: from the default position, one SPACE key-down and the
\* update after it leave persist["text_position"] = [10, 10].
C13_TenTen ==
    (spaces = 1 /\ last.op = "update" /\ last.pre.inst = 1 /\ last.pre.done) =>
        /\ "text_position" \in DOMAIN state.persist
        /\ state.persist["text_position"] = <<10, 10>>

\* C13 as the code has it: they leave persist["text_position"] = [10, 310],
\* the default [0, 300] moved by (10, 10).
C13_DefaultMoved ==
    (spaces = 1 /\ last.op = "update" /\ last.pre.inst = 1 /\ last.pre.done) =>
        /\ "text_position" \in DOMAIN state.persist
        /\ state.persist["text_position"] = <<10, 310>>
        /\ state.persist["text_position"] = Moved(DefaultPosition)

\* C13's case: the update after the one SPACE key-down to the first MainMenu
C13_Witness ==
    /\ spaces = 1
    /\ last.op = "update"
    /\ last.pre.inst = 1
    /\ last.pre.done
    /\ state.cls = "Scene"
    /\ state.inst = 2

C15_FailedFlipKeepsState ==
    (last.op = "update" /\ last.pre.done /\ last.pre.next_state \notin DOMAIN states) =>
        /\ pc = "raised"
        /\ state.inst = last.pre.inst
        /\ state.done = last.pre.done
        /\ state.quit = last.pre.quit
        /\ state.next_state = last.pre.next_state

\* C16: on_draw dispatches draw only to an instance that has received the
\* update hook, so that its colour has been assigned.
C16_DrawAfterUpdate ==
    last.op = "on_draw" =>
        /\ state.col # NoAttr
        /\ pc = "running"

\* C17: in the shipped program an instance becomes active with done and
\* quit unset; an update replaces the active instance only if that instance
\* received a SPACE key-down; two updates in a row never both replace it.
C17_FreshFlags ==
    /\ []((last.op = "init" \/ Flipped) =>
            /\ ~state.done
            /\ ~state.quit
            /\ ~calls[1][4])
    /\ [][ state'.inst # state.inst =>
             /\ last'.op = "update"
             /\ space_from # NoAttr ]_vars
    /\ [][ (Flipped /\ last'.op = "update") => state'.inst = state.inst ]_vars

\* C17's case: an update has just put a new instance in place
C17_Witness ==
    /\ Flipped
    /\ pc = "running"
    /\ ~state.done
    /\ ~state.quit

\* C18: in the shipped program the active state's text position is
\* [10k, 300 + 10k] after k SPACE key-downs, whichever instances received
\* them, and from k = 1 on persist["text_position"] is that position.
C18_PositionAccumulates ==
    LET pos == <<DefaultPosition[1] + Step * spaces, DefaultPosition[2] + Step * spaces>>
    IN  /\ state.text_position = pos
        /\ IF spaces >= 1
           THEN /\ "text_position" \in DOMAIN state.persist
                /\ state.persist["text_position"] = pos
           ELSE "text_position" \notin DOMAIN state.persist

\* C18's case: a second SPACE key-down, delivered after a transition
C18_Witness ==
    /\ spaces = 2
    /\ state.inst = 2
    /\ state.text_position = <<20, 320>>

\* C19: in the shipped program the active state's class alternates
\* MainMenu, Scene, MainMenu, ...: every transition changes the class, and
\* every transition is made by an update call that makes no other.
C19_Alternation ==
    /\ [](state.cls = IF insts % 2 = 1 THEN "MainMenu" ELSE "Scene")
    /\ [][ state'.inst # state.inst => state'.cls # state.cls ]_vars
    /\ [][ insts' # insts => (last'.op = "update" /\ insts' = insts + 1) ]_vars

\* C19's case: back in a MainMenu after two transitions
C19_Witness ==
    /\ insts = 3
    /\ state.inst = 3
    /\ state.cls = "MainMenu"

=============================================================================
